---- MODULE Spec2Model ----
(***************************************************************************)
(* A model of queue_r.c: a thread-safe double-ended queue on a doubly      *)
(* linked list, guarded by one mutex, two condition variables, a reader    *)
(* count and a destroyed flag.                                             *)
(*                                                                         *)
(* Every thread is a caller of the public interface.  A call is split at   *)
(* the points where other threads can interleave: the unlocked pre-check,  *)
(* the acquisition of the mutex (with the statements up to the next        *)
(* pthread_cond_wait or to write_unlock, which run under the mutex), the   *)
(* unlock, and for q_traverse the unlocked test of destroyed and every     *)
(* step of the walk, which run outside the mutex.                          *)
(***************************************************************************)
EXTENDS Integers, Sequences, FiniteSets, Bags, TLC

\* ------------------------------------------------------------------ bounds
NumThreads == 3
MaxNodes == 3
MaxPayload == 2

\* --------------------------------------------------------------- constants
NULL == 0
NoThread == 0
EXIT_SUCCESS == 0
EXIT_FAILURE == 1

Threads == 1..NumThreads
Nodes == 1..MaxNodes
Payloads == 1..MaxPayload

PushOps == {"push_front", "push_back"}
PopOps == {"pop_front", "pop_back"}
WriteOps == PushOps \cup PopOps \cup {"deinit"}
Ops == WriteOps \cup {"traverse"}

VARIABLES
    head,       \* queue->head: a node address or NULL
    tail,       \* queue->tail
    heap,       \* the node structs: heap[n] = [object, prev, next]
    allocated,  \* the addresses malloc has handed out and free has not taken back
    readers,    \* queue->readers
    destroyed,  \* queue->destroyed
    mutex,      \* the owner of queue->lock, or NoThread
    pc,         \* the position of each thread inside its call
    op,         \* the function each thread is executing ("none" when idle)
    arg,        \* the object argument of a push, or the callback flag of a traverse
    cur,        \* the loop variable current of q_traverse
    ret,        \* return_value / front_object / back_object / result
    visited,    \* the payloads the traverse callback has been called with
    oom,        \* this call's malloc returned NULL
    fault,      \* "none", or the undefined behaviour the process ran into
    deque,      \* history: the reference deque, the payloads front first
    phase,      \* "any", or "fill" / "drain" in the fill-then-drain scenario
    pushed,     \* history: the bag of payloads pushed while filling
    popped,     \* history: the bag of payloads popped while draining
    last        \* history: the last push of the round-trip scenario, and the
                \* pop that followed it

vars == <<head, tail, heap, allocated, readers, destroyed, mutex, pc, op, arg,
          cur, ret, visited, oom, fault, deque, phase, pushed, popped, last>>

qvars == <<head, tail, heap, allocated, readers, destroyed>>
locals == <<cur, ret, visited, oom>>
ghost == <<deque, phase, pushed, popped, last>>

\* The content of memory that is not allocated is indeterminate and is never
\* read without a fault; it is kept at one value.
FreeCell == [object |-> NULL, prev |-> NULL, next |-> NULL]

\* The node struct of queue_r.h.
Node(o, p, n) == [object |-> o, prev |-> p, next |-> n]

\* ----------------------------------------------------------- list helpers
\* The payloads read from node n by following next, at most k steps.
RECURSIVE ListFrom(_, _, _)
ListFrom(h, n, k) ==
    IF n = NULL \/ k = 0 THEN <<>>
    ELSE <<h[n].object>> \o ListFrom(h, h[n].next, k - 1)

\* The node addresses reached from n by following next, at most k steps.
RECURSIVE NodesFrom(_, _, _)
NodesFrom(h, n, k) ==
    IF n = NULL \/ k = 0 THEN <<>>
    ELSE <<n>> \o NodesFrom(h, h[n].next, k - 1)

Contents == ListFrom(heap, head, MaxNodes + 1)
Chain == NodesFrom(heap, head, MaxNodes + 1)

\* No push on record.
NoTrip == [op |-> "none", x |-> NULL, list |-> <<>>, pop |-> "none"]

\* ------------------------------------------------------------------- init
\* q_init: head, tail, readers and destroyed of the queue struct.
QInitState ==
    /\ head = NULL
    /\ tail = NULL
    /\ readers = 0
    /\ destroyed = FALSE

Start(ph) ==
    /\ QInitState
    /\ heap = [n \in Nodes |-> FreeCell]
    /\ allocated = {}
    /\ mutex = NoThread
    /\ pc = [t \in Threads |-> "idle"]
    /\ op = [t \in Threads |-> "none"]
    /\ arg = [t \in Threads |-> NULL]
    /\ cur = [t \in Threads |-> NULL]
    /\ ret = [t \in Threads |-> 0]
    /\ visited = [t \in Threads |-> <<>>]
    /\ oom = [t \in Threads |-> FALSE]
    /\ fault = "none"
    /\ deque = <<>>
    /\ phase = ph
    /\ pushed = EmptyBag
    /\ popped = EmptyBag
    /\ last = NoTrip

Init == Start("any")

\* ------------------------------------------------------ condition variables
\* Mutant of the broadcasts: no parked thread is woken.
Wake_Nobody(p, conds) == p

\* pthread_cond_broadcast(&queue->read_cond) / (&queue->write_cond): every
\* thread parked on the condition variable goes back to contend for the mutex.
Wake(p, conds) == [t \in Threads |-> IF p[t] \in conds THEN "lock" ELSE p[t]]

\* Mutants of the while conditions: a write lock that does not wait for the
\* readers, a pop lock that does not wait for an element.
PushMustWait_IgnoreReaders == FALSE
PopMustWait_IgnoreEmpty == readers # 0 /\ ~destroyed

\* Mutants of the while condition of read_lock: no wait on the empty queue;
\* a wait for the other readers to leave.
ReadMustWait_Never == FALSE
ReadMustWait_Exclusive == (head = NULL \/ readers # 0) /\ ~destroyed

\* The while conditions of read_lock, write_lock_push and write_lock_pop.
ReadMustWait == head = NULL /\ ~destroyed
PushMustWait == readers # 0 /\ ~destroyed
PopMustWait == (head = NULL \/ readers # 0) /\ ~destroyed

\* Mutant of the pre-check: the object argument is not tested.
PreCheckFails_NoObjectCheck(o, a) ==
    \/ destroyed
    \/ o = "traverse" /\ a = NULL

\* ---------------------------------------------------------------- actions
\* The entry of a public function: its arguments and the unlocked pre-check
\* of the arguments and of queue->destroyed.
PreCheckFails(o, a) ==
    \/ destroyed
    \/ o \in PushOps /\ a = NULL
    \/ o = "traverse" /\ a = NULL

\* The arguments a call of function o can be given: an object (or NULL) for
\* a push, a callback (or NULL) for q_traverse.
Args(o) ==
    IF o \in PushOps THEN Payloads \cup {NULL}
    ELSE IF o = "traverse" THEN {NULL, 1}
    ELSE {NULL}

\* What a function returns when its pre-check fails.
EarlyResult(o) == IF o \in PopOps \cup {"deinit"} THEN NULL ELSE EXIT_FAILURE

CallOf(t, ops) ==
    /\ fault = "none"
    /\ pc[t] = "idle"
    /\ \E o \in ops : \E a \in Args(o) :
        /\ op' = [op EXCEPT ![t] = o]
        /\ arg' = [arg EXCEPT ![t] = a]
        /\ IF PreCheckFails(o, a)
           THEN /\ pc' = [pc EXCEPT ![t] = "ret"]
                /\ ret' = [ret EXCEPT ![t] = EarlyResult(o)]
           ELSE /\ pc' = [pc EXCEPT ![t] = "lock"]
                /\ ret' = [ret EXCEPT ![t] = 0]
    /\ UNCHANGED <<qvars, mutex, cur, visited, oom, ghost, fault>>

\* A thread that may call any function of the interface.
Call(t) == CallOf(t, Ops)

\* The return of a function whose pre-check failed.
Return(t) ==
    /\ fault = "none"
    /\ pc[t] = "ret"
    /\ pc' = [pc EXCEPT ![t] = "idle"]
    /\ op' = [op EXCEPT ![t] = "none"]
    /\ arg' = [arg EXCEPT ![t] = NULL]
    /\ ret' = [ret EXCEPT ![t] = 0]
    /\ UNCHANGED <<qvars, mutex, cur, visited, oom, ghost, fault>>

\* The locals of a call that returns go out of scope.
Returned(t) ==
    /\ op' = [op EXCEPT ![t] = "none"]
    /\ arg' = [arg EXCEPT ![t] = NULL]
    /\ cur' = [cur EXCEPT ![t] = NULL]
    /\ ret' = [ret EXCEPT ![t] = 0]
    /\ visited' = [visited EXCEPT ![t] = <<>>]
    /\ oom' = [oom EXCEPT ![t] = FALSE]

\* pthread_cond_wait: release the mutex and park on the condition variable.
\* The thread took the mutex in this same step, so the mutex stays free.
Park(t, cond) ==
    /\ pc' = [pc EXCEPT ![t] = cond]
    /\ UNCHANGED <<qvars, mutex, op, arg, locals, ghost, fault>>

\* pthread_cond_wait may return without a signal.
SpuriousWake(t) ==
    /\ fault = "none"
    /\ pc[t] \in {"wait_r", "wait_w"}
    /\ pc' = [pc EXCEPT ![t] = "lock"]
    /\ UNCHANGED <<qvars, mutex, op, arg, locals, ghost, fault>>

\* ------------------------------------------------------------ the mutations
\* malloc(sizeof(node)): a free address, or NULL.
MallocResults == (Nodes \ allocated) \cup {NULL}

\* Mutant of the write lock: the mutex is not taken.
Leave_NoMutex(t, r, failed) ==
    /\ pc' = [pc EXCEPT ![t] = "unlock"]
    /\ ret' = [ret EXCEPT ![t] = r]
    /\ oom' = [oom EXCEPT ![t] = failed]
    /\ UNCHANGED mutex

\* The statements of a writer under the mutex end at write_unlock, with the
\* mutex held and the value the function will return.
Leave(t, r, failed) ==
    /\ pc' = [pc EXCEPT ![t] = "unlock"]
    /\ ret' = [ret EXCEPT ![t] = r]
    /\ oom' = [oom EXCEPT ![t] = failed]
    /\ mutex' = t

\* A dereference of NULL or of freed memory: the process has left defined
\* behaviour (on the build of the Makefile, a segmentation fault).
Fault(kind) ==
    /\ fault' = kind
    /\ UNCHANGED <<qvars, mutex, pc, ret, oom, ghost>>

\* History of the fill-then-drain scenario: the payload of a push that
\* linked a node while filling, of a pop that unlinked one while draining.
\* In the round-trip scenario: the push that linked a node with the list it
\* found, then the pop that came directly after it; any later push or pop
\* starts the record anew.
LogPush(t, x) ==
    /\ pushed' = IF phase = "fill" THEN pushed (+) SetToBag({x}) ELSE pushed
    /\ last' = IF phase = "trip"
               THEN [op |-> op[t], x |-> x, list |-> Contents, pop |-> "none"]
               ELSE last
    /\ UNCHANGED <<phase, popped>>

LogPop(t, x) ==
    /\ popped' = IF phase = "drain" THEN popped (+) SetToBag({x}) ELSE popped
    /\ last' = IF last.op # "none" /\ last.pop = "none"
               THEN [last EXCEPT !.pop = op[t]]
               ELSE NoTrip
    /\ UNCHANGED <<phase, pushed>>

\* create_first_node: the head and tail node of an empty queue.  The result
\* of malloc is dereferenced unchecked.
create_first_node(t, n) ==
    IF arg[t] = NULL \/ head # NULL \/ tail # NULL
    THEN /\ Leave(t, EXIT_SUCCESS, FALSE)
         /\ UNCHANGED <<qvars, ghost, fault>>
    ELSE IF n = NULL
    THEN Fault("malloc_null_deref")
    ELSE /\ heap' = [heap EXCEPT ![n] = Node(arg[t], NULL, NULL)]
         /\ allocated' = allocated \cup {n}
         /\ head' = n
         /\ tail' = n
         /\ deque' = <<arg[t]>>
         /\ LogPush(t, arg[t])
         /\ Leave(t, EXIT_SUCCESS, FALSE)
         /\ UNCHANGED <<readers, destroyed, fault>>

\* Mutant of q_push_front: queue->head->prev = new_node is left out.
LinkFront_NoPrev(t, n) ==
    IF n # NULL
    THEN /\ heap' = [heap EXCEPT ![n] = Node(arg[t], NULL, head)]
         /\ allocated' = allocated \cup {n}
         /\ head' = n
         /\ deque' = <<arg[t]>> \o deque
         /\ LogPush(t, arg[t])
         /\ Leave(t, EXIT_SUCCESS, FALSE)
         /\ UNCHANGED <<tail, readers, destroyed, fault>>
    ELSE /\ Leave(t, EXIT_FAILURE, TRUE)
         /\ UNCHANGED <<qvars, ghost, fault>>

\* The else branch of q_push_front: a new node before head.
LinkFront(t, n) ==
    IF n # NULL
    THEN /\ heap' = [heap EXCEPT ![n] = Node(arg[t], NULL, head),
                                 ![head].prev = n]
         /\ allocated' = allocated \cup {n}
         /\ head' = n
         /\ deque' = <<arg[t]>> \o deque
         /\ LogPush(t, arg[t])
         /\ Leave(t, EXIT_SUCCESS, FALSE)
         /\ UNCHANGED <<tail, readers, destroyed, fault>>
    ELSE /\ Leave(t, EXIT_FAILURE, TRUE)
         /\ UNCHANGED <<qvars, ghost, fault>>

\* Mutant of q_push_back: queue->tail->next = new_node is left out.
LinkBack_Unlinked(t, n) ==
    IF n # NULL
    THEN /\ heap' = [heap EXCEPT ![n] = Node(arg[t], tail, NULL)]
         /\ allocated' = allocated \cup {n}
         /\ tail' = n
         /\ deque' = Append(deque, arg[t])
         /\ LogPush(t, arg[t])
         /\ Leave(t, EXIT_SUCCESS, FALSE)
         /\ UNCHANGED <<head, readers, destroyed, fault>>
    ELSE /\ Leave(t, EXIT_FAILURE, TRUE)
         /\ UNCHANGED <<qvars, ghost, fault>>

\* The else branch of q_push_back: a new node after tail.
LinkBack(t, n) ==
    IF n # NULL
    THEN /\ heap' = [heap EXCEPT ![n] = Node(arg[t], tail, NULL),
                                 ![tail].next = n]
         /\ allocated' = allocated \cup {n}
         /\ tail' = n
         /\ deque' = Append(deque, arg[t])
         /\ LogPush(t, arg[t])
         /\ Leave(t, EXIT_SUCCESS, FALSE)
         /\ UNCHANGED <<head, readers, destroyed, fault>>
    ELSE /\ Leave(t, EXIT_FAILURE, TRUE)
         /\ UNCHANGED <<qvars, ghost, fault>>

\* Mutant of q_push_front: destroyed is not tested again under the lock.
q_push_front_NoRecheck(t) ==
    /\ fault = "none"
    /\ pc[t] = "lock"
    /\ op[t] = "push_front"
    /\ mutex = NoThread
    /\ IF PushMustWait
       THEN Park(t, "wait_w")
       ELSE /\ \E n \in MallocResults :
                    IF head = NULL THEN create_first_node(t, n)
                    ELSE LinkFront(t, n)
            /\ UNCHANGED <<op, arg, cur, visited>>

\* q_push_front from write_lock_push to write_unlock.
q_push_front(t) ==
    /\ fault = "none"
    /\ pc[t] = "lock"
    /\ op[t] = "push_front"
    /\ mutex = NoThread
    /\ IF PushMustWait
       THEN Park(t, "wait_w")
       ELSE /\ IF destroyed
               THEN /\ Leave(t, EXIT_FAILURE, FALSE)
                    /\ UNCHANGED <<qvars, ghost, fault>>
               ELSE \E n \in MallocResults :
                    IF head = NULL THEN create_first_node(t, n)
                    ELSE LinkFront(t, n)
            /\ UNCHANGED <<op, arg, cur, visited>>

\* q_push_back from write_lock_push to write_unlock.
q_push_back(t) ==
    /\ fault = "none"
    /\ pc[t] = "lock"
    /\ op[t] = "push_back"
    /\ mutex = NoThread
    /\ IF PushMustWait
       THEN Park(t, "wait_w")
       ELSE /\ IF destroyed
               THEN /\ Leave(t, EXIT_FAILURE, FALSE)
                    /\ UNCHANGED <<qvars, ghost, fault>>
               ELSE \E n \in MallocResults :
                    IF tail = NULL THEN create_first_node(t, n)
                    ELSE LinkBack(t, n)
            /\ UNCHANGED <<op, arg, cur, visited>>

\* The reference deque without its first / last element.
RemoveFirst(s) == IF s = <<>> THEN s ELSE Tail(s)
RemoveLast(s) == IF s = <<>> THEN s ELSE SubSeq(s, 1, Len(s) - 1)

\* Mutant of q_pop_front: the object of tail is returned.
UnlinkFront_ReturnsTail(t) ==
    IF head = NULL
    THEN Fault("pop_null_deref")
    ELSE IF head \notin allocated
    THEN Fault("use_after_free")
    ELSE /\ Leave(t, heap[tail].object, FALSE)
         /\ deque' = RemoveFirst(deque)
         /\ LogPop(t, heap[tail].object)
         /\ allocated' = allocated \ {head}
         /\ IF head = tail
            THEN /\ heap' = [heap EXCEPT ![head] = FreeCell]
                 /\ head' = NULL
                 /\ tail' = NULL
            ELSE /\ heap' = [heap EXCEPT ![head] = FreeCell,
                                         ![heap[head].next].prev = NULL]
                 /\ head' = heap[head].next
                 /\ UNCHANGED tail
         /\ UNCHANGED <<readers, destroyed, fault>>

\* The if (!queue->destroyed) block of q_pop_front: detach and free head.
UnlinkFront(t) ==
    IF head = NULL
    THEN Fault("pop_null_deref")
    ELSE IF head \notin allocated
    THEN Fault("use_after_free")
    ELSE /\ Leave(t, heap[head].object, FALSE)
         /\ deque' = RemoveFirst(deque)
         /\ LogPop(t, heap[head].object)
         /\ allocated' = allocated \ {head}
         /\ IF head = tail
            THEN /\ heap' = [heap EXCEPT ![head] = FreeCell]
                 /\ head' = NULL
                 /\ tail' = NULL
            ELSE /\ heap' = [heap EXCEPT ![head] = FreeCell,
                                         ![heap[head].next].prev = NULL]
                 /\ head' = heap[head].next
                 /\ UNCHANGED tail
         /\ UNCHANGED <<readers, destroyed, fault>>

\* Mutant of q_pop_back: the object of head is returned.
UnlinkBack_ReturnsHead(t) ==
    IF tail = NULL
    THEN Fault("pop_null_deref")
    ELSE IF tail \notin allocated
    THEN Fault("use_after_free")
    ELSE /\ Leave(t, heap[head].object, FALSE)
         /\ deque' = RemoveLast(deque)
         /\ LogPop(t, heap[head].object)
         /\ allocated' = allocated \ {tail}
         /\ IF head = tail
            THEN /\ heap' = [heap EXCEPT ![tail] = FreeCell]
                 /\ head' = NULL
                 /\ tail' = NULL
            ELSE /\ heap' = [heap EXCEPT ![tail] = FreeCell,
                                         ![heap[tail].prev].next = NULL]
                 /\ tail' = heap[tail].prev
                 /\ UNCHANGED head
         /\ UNCHANGED <<readers, destroyed, fault>>

\* The if (!queue->destroyed) block of q_pop_back: detach and free tail.
UnlinkBack(t) ==
    IF tail = NULL
    THEN Fault("pop_null_deref")
    ELSE IF tail \notin allocated
    THEN Fault("use_after_free")
    ELSE /\ Leave(t, heap[tail].object, FALSE)
         /\ deque' = RemoveLast(deque)
         /\ LogPop(t, heap[tail].object)
         /\ allocated' = allocated \ {tail}
         /\ IF head = tail
            THEN /\ heap' = [heap EXCEPT ![tail] = FreeCell]
                 /\ head' = NULL
                 /\ tail' = NULL
            ELSE /\ heap' = [heap EXCEPT ![tail] = FreeCell,
                                         ![heap[tail].prev].next = NULL]
                 /\ tail' = heap[tail].prev
                 /\ UNCHANGED head
         /\ UNCHANGED <<readers, destroyed, fault>>

\* Mutant of q_pop_front: a pop that finds the queue destroyed clears the flag.
q_pop_front_Reopens(t) ==
    /\ fault = "none"
    /\ pc[t] = "lock"
    /\ op[t] = "pop_front"
    /\ mutex = NoThread
    /\ IF PopMustWait
       THEN Park(t, "wait_w")
       ELSE /\ IF destroyed
               THEN /\ Leave(t, NULL, FALSE)
                    /\ destroyed' = FALSE
                    /\ UNCHANGED <<head, tail, heap, allocated, readers,
                                   ghost, fault>>
               ELSE UnlinkFront(t)
            /\ UNCHANGED <<op, arg, cur, visited>>

\* q_pop_front from write_lock_pop to write_unlock.
q_pop_front(t) ==
    /\ fault = "none"
    /\ pc[t] = "lock"
    /\ op[t] = "pop_front"
    /\ mutex = NoThread
    /\ IF PopMustWait
       THEN Park(t, "wait_w")
       ELSE /\ IF destroyed
               THEN /\ Leave(t, NULL, FALSE)
                    /\ UNCHANGED <<qvars, ghost, fault>>
               ELSE UnlinkFront(t)
            /\ UNCHANGED <<op, arg, cur, visited>>

\* q_pop_back from write_lock_pop to write_unlock.
q_pop_back(t) ==
    /\ fault = "none"
    /\ pc[t] = "lock"
    /\ op[t] = "pop_back"
    /\ mutex = NoThread
    /\ IF PopMustWait
       THEN Park(t, "wait_w")
       ELSE /\ IF destroyed
               THEN /\ Leave(t, NULL, FALSE)
                    /\ UNCHANGED <<qvars, ghost, fault>>
               ELSE UnlinkBack(t)
            /\ UNCHANGED <<op, arg, cur, visited>>

\* Mutant of q_deinit: the nodes are not freed.
FreeAll_Leaks(t) ==
    /\ head' = NULL
    /\ tail' = NULL
    /\ destroyed' = TRUE
    /\ deque' = <<>>
    /\ last' = NoTrip
    /\ UNCHANGED <<phase, pushed, popped>>
    /\ Leave(t, 0, FALSE)
    /\ UNCHANGED <<heap, allocated, readers, fault>>

\* The if (!queue->destroyed) block of q_deinit: free every node reached
\* from head, clear head and tail, set destroyed.
FreeAll(t) ==
    LET freed == {Chain[i] : i \in 1..Len(Chain)}
    IN IF ~(freed \subseteq allocated) \/ Len(Chain) > MaxNodes
       THEN Fault("use_after_free")
       ELSE /\ heap' = [n \in Nodes |-> IF n \in freed THEN FreeCell ELSE heap[n]]
            /\ allocated' = allocated \ freed
            /\ head' = NULL
            /\ tail' = NULL
            /\ destroyed' = TRUE
            /\ deque' = <<>>
            /\ last' = NoTrip
            /\ UNCHANGED <<phase, pushed, popped>>
            /\ Leave(t, 0, FALSE)
            /\ UNCHANGED <<readers, fault>>

\* Mutant of q_deinit: a second q_deinit clears the flag again.
q_deinit_Reopens(t) ==
    /\ fault = "none"
    /\ pc[t] = "lock"
    /\ op[t] = "deinit"
    /\ mutex = NoThread
    /\ IF PushMustWait
       THEN Park(t, "wait_w")
       ELSE /\ IF destroyed
               THEN /\ Leave(t, 0, FALSE)
                    /\ destroyed' = FALSE
                    /\ UNCHANGED <<head, tail, heap, allocated, readers,
                                   ghost, fault>>
               ELSE FreeAll(t)
            /\ UNCHANGED <<op, arg, cur, visited>>

\* q_deinit from write_lock_push to write_unlock.
q_deinit(t) ==
    /\ fault = "none"
    /\ pc[t] = "lock"
    /\ op[t] = "deinit"
    /\ mutex = NoThread
    /\ IF PushMustWait
       THEN Park(t, "wait_w")
       ELSE /\ IF destroyed
               THEN /\ Leave(t, 0, FALSE)
                    /\ UNCHANGED <<qvars, ghost, fault>>
               ELSE FreeAll(t)
            /\ UNCHANGED <<op, arg, cur, visited>>

\* Mutant of write_unlock: the two broadcasts are left out.
write_unlock_NoBroadcast(t) ==
    /\ fault = "none"
    /\ pc[t] = "unlock"
    /\ mutex' = NoThread
    /\ pc' = [pc EXCEPT ![t] = "idle"]
    /\ Returned(t)
    /\ UNCHANGED <<qvars, ghost, fault>>

\* write_unlock, and the return of the function: broadcast read_cond and
\* write_cond, release the mutex.
write_unlock(t) ==
    /\ fault = "none"
    /\ pc[t] = "unlock"
    /\ mutex' = NoThread
    /\ pc' = [Wake(pc, {"wait_r", "wait_w"}) EXCEPT ![t] = "idle"]
    /\ Returned(t)
    /\ UNCHANGED <<qvars, ghost, fault>>

\* --------------------------------------------------------------- traversal
\* read_lock: take the mutex, wait on read_cond while the queue is empty and
\* live, then readers++ and release the mutex.
read_lock(t) ==
    /\ fault = "none"
    /\ pc[t] = "lock"
    /\ op[t] = "traverse"
    /\ mutex = NoThread
    /\ IF ReadMustWait
       THEN Park(t, "wait_r")
       ELSE /\ readers' = readers + 1
            /\ pc' = [pc EXCEPT ![t] = "reg"]
            /\ UNCHANGED <<head, tail, heap, allocated, destroyed, mutex, op,
                           arg, locals, ghost, fault>>

\* Mutant of q_traverse: the loop starts at tail.
TraverseBegin_FromTail(t) ==
    /\ fault = "none"
    /\ pc[t] = "reg"
    /\ IF ~destroyed
       THEN /\ cur' = [cur EXCEPT ![t] = tail]
            /\ pc' = [pc EXCEPT ![t] = "walk"]
            /\ UNCHANGED ret
       ELSE /\ ret' = [ret EXCEPT ![t] = EXIT_FAILURE]
            /\ pc' = [pc EXCEPT ![t] = "runlock"]
            /\ UNCHANGED cur
    /\ UNCHANGED <<qvars, mutex, op, arg, visited, oom, ghost, fault>>

\* q_traverse after read_lock: the unlocked test of queue->destroyed and the
\* initialisation of the loop, current = queue->head.
TraverseBegin(t) ==
    /\ fault = "none"
    /\ pc[t] = "reg"
    /\ IF ~destroyed
       THEN /\ cur' = [cur EXCEPT ![t] = head]
            /\ pc' = [pc EXCEPT ![t] = "walk"]
            /\ UNCHANGED ret
       ELSE /\ ret' = [ret EXCEPT ![t] = EXIT_FAILURE]
            /\ pc' = [pc EXCEPT ![t] = "runlock"]
            /\ UNCHANGED cur
    /\ UNCHANGED <<qvars, mutex, op, arg, visited, oom, ghost, fault>>

\* One iteration of the for loop of q_traverse, outside the mutex: the test
\* of current, traverse(current->object), current = current->next.
TraverseStep(t) ==
    /\ fault = "none"
    /\ pc[t] = "walk"
    /\ IF cur[t] = NULL
       THEN /\ pc' = [pc EXCEPT ![t] = "runlock"]
            /\ UNCHANGED <<cur, visited, fault>>
       ELSE IF cur[t] \notin allocated
       THEN /\ fault' = "use_after_free"
            /\ UNCHANGED <<pc, cur, visited>>
       ELSE /\ visited' = [visited EXCEPT ![t] = Append(@, heap[cur[t]].object)]
            /\ cur' = [cur EXCEPT ![t] = heap[cur[t]].next]
            /\ UNCHANGED <<pc, fault>>
    /\ UNCHANGED <<qvars, mutex, op, arg, ret, oom, ghost>>

\* Mutant of read_unlock: readers is not decremented.
read_unlock_NoDecrement(t) ==
    /\ fault = "none"
    /\ pc[t] = "runlock"
    /\ mutex = NoThread
    /\ pc' = [(IF readers = 0 THEN Wake(pc, {"wait_w"}) ELSE pc)
                EXCEPT ![t] = "idle"]
    /\ Returned(t)
    /\ UNCHANGED <<qvars, mutex, ghost, fault>>

\* Mutant of read_unlock: write_cond is not broadcast.
read_unlock_NoBroadcast(t) ==
    /\ fault = "none"
    /\ pc[t] = "runlock"
    /\ mutex = NoThread
    /\ readers' = readers - 1
    /\ pc' = [pc EXCEPT ![t] = "idle"]
    /\ Returned(t)
    /\ UNCHANGED <<head, tail, heap, allocated, destroyed, mutex, ghost, fault>>

\* read_unlock, and the return of q_traverse: take the mutex, readers--,
\* broadcast write_cond when the count reaches zero, release the mutex.
read_unlock(t) ==
    /\ fault = "none"
    /\ pc[t] = "runlock"
    /\ mutex = NoThread
    /\ readers' = readers - 1
    /\ pc' = [(IF readers - 1 = 0 THEN Wake(pc, {"wait_w"}) ELSE pc)
                EXCEPT ![t] = "idle"]
    /\ Returned(t)
    /\ UNCHANGED <<head, tail, heap, allocated, destroyed, mutex, ghost, fault>>

\* ------------------------------------------------------------------ q_init
\* q_init called again on a queue no thread is using (tests/test.c joins its
\* threads first): head, tail, readers and destroyed are reset, nothing is
\* freed.
q_init(t) ==
    /\ fault = "none"
    /\ \A u \in Threads : pc[u] = "idle"
    /\ head' = NULL
    /\ tail' = NULL
    /\ readers' = 0
    /\ destroyed' = FALSE
    /\ deque' = <<>>
    /\ last' = NoTrip
    /\ UNCHANGED <<heap, allocated, mutex, pc, op, arg, locals, fault, phase,
                   pushed, popped>>

\* ------------------------------------------------------------ specification
\* The steps of a call that has been made: everything but a new call and a
\* spurious wake-up.
Progress(t) ==
    \/ Return(t)
    \/ q_push_front(t)
    \/ q_push_back(t)
    \/ q_pop_front(t)
    \/ q_pop_back(t)
    \/ q_deinit(t)
    \/ write_unlock(t)
    \/ read_lock(t)
    \/ TraverseBegin(t)
    \/ TraverseStep(t)
    \/ read_unlock(t)

Step(t) == Call(t) \/ SpuriousWake(t) \/ Progress(t)

\* Any number of threads, each calling any function at any time.
Next == \E t \in Threads : Step(t)

Spec == Init /\ [][Next]_vars

\* One thread alone.
SeqNext == \E t \in {1} : Step(t)

SeqSpec == Init /\ [][SeqNext]_vars

\* Threads with a task each, as the thread functions of tests/test.c.
Role(t) ==
    IF t = 1 THEN {"deinit", "push_back"}
    ELSE IF t = 2 THEN {"pop_front", "push_front"}
    ELSE {"traverse", "pop_back"}

RoleCall(t) == CallOf(t, Role(t))

RoleNext == \E t \in Threads : RoleCall(t) \/ SpuriousWake(t) \/ Progress(t)

\* Fair scheduling: a thread inside a call that can take a step again and
\* again does take one; the mutex is handed to every thread that keeps
\* asking for it.  No thread is obliged to make a new call.
FairSpec ==
    Init /\ [][RoleNext]_vars /\ \A t \in Threads : SF_vars(Progress(t))

\* The same threads, and q_init called again whenever they are all idle.
InitNext == RoleNext \/ \E t \in Threads : q_init(t)

InitSpec == Init /\ [][InitNext]_vars

\* One producer, one consumer, and the other threads tearing the queue down.
PCRole(t) ==
    IF t = 1 THEN PushOps ELSE IF t = 2 THEN PopOps ELSE {"deinit"}

PCCall(t) == CallOf(t, PCRole(t))

PCNext ==
    \E t \in Threads :
        \/ PCCall(t)
        \/ SpuriousWake(t)
        \/ Return(t)
        \/ q_push_front(t)
        \/ q_push_back(t)
        \/ q_pop_front(t)
        \/ q_pop_back(t)
        \/ q_deinit(t)
        \/ write_unlock(t)

PCSpec == Init /\ [][PCNext]_vars

\* Fill, then drain: the threads push concurrently; when all pushes have
\* returned they pop and traverse.
FillDrainCall(t) ==
    CallOf(t, IF phase = "fill" THEN PushOps ELSE PopOps \cup {"traverse"})

StartDrain ==
    /\ fault = "none"
    /\ phase = "fill"
    /\ \A t \in Threads : pc[t] = "idle"
    /\ phase' = "drain"
    /\ UNCHANGED <<qvars, mutex, pc, op, arg, locals, fault, deque, pushed,
                   popped, last>>

FillDrainNext ==
    \/ StartDrain
    \/ \E t \in Threads :
        \/ FillDrainCall(t)
        \/ SpuriousWake(t)
        \/ Return(t)
        \/ q_push_front(t)
        \/ q_push_back(t)
        \/ q_pop_front(t)
        \/ q_pop_back(t)
        \/ write_unlock(t)
        \/ read_lock(t)
        \/ TraverseBegin(t)
        \/ TraverseStep(t)
        \/ read_unlock(t)

FillDrainSpec == Start("fill") /\ [][FillDrainNext]_vars

\* Round trips: one thread alone, every push on record until the next
\* operation that changes the list.
TripSpec == Start("trip") /\ [][SeqNext]_vars

\* ------------------------------------------------------------------ claims
InTraverse(t) == pc[t] \in {"reg", "walk", "runlock"}
Parked(t) == pc[t] \in {"wait_r", "wait_w"}
Last(s) == s[Len(s)]
Front(s) == SubSeq(s, 1, Len(s) - 1)

\* A writer step of thread t: it takes the mutex and runs to write_unlock.
WriterStep(t) == pc[t] = "lock" /\ pc'[t] = "unlock"

\* C1: while any thread is between read_lock and read_unlock of q_traverse,
\* no step links, unlinks or frees a node (head, tail, every node and the
\* set of allocated nodes stay as they are), and no walk ever dereferences a
\* freed node.
C1_NoWriteDuringTraverse ==
    /\ [][(\E t \in Threads : InTraverse(t))
            => UNCHANGED <<head, tail, heap, allocated>>]_vars
    /\ [](fault # "use_after_free")

\* C1 witness: a traverser in the middle of the list while a writer is parked.
C1_Witness ==
    \E t, u \in Threads :
        /\ pc[t] = "walk" /\ visited[t] # <<>> /\ cur[t] # NULL
        /\ pc[u] = "wait_w" /\ op[u] \in WriteOps

\* A thread blocked inside a push, a pop or a traversal while some thread is
\* inside a q_deinit called on a live queue.
DeinitCalled ==
    \E d \in Threads : op[d] = "deinit" /\ pc[d] \in {"lock", "wait_w", "unlock"}
BlockedInCall(t) == Parked(t) /\ op[t] # "deinit"

\* The result of a call that is about to return is the failure / NULL one.
FailingResult(t) ==
    /\ (pc[t] = "unlock" /\ op[t] \in PopOps) => ret[t] = NULL
    /\ (pc[t] = "unlock" /\ op[t] \in PushOps) => ret[t] = EXIT_FAILURE
    /\ (pc[t] = "runlock") => ret[t] = EXIT_FAILURE

\* C2 as stated: once q_deinit is called on a live queue, every thread
\* blocked inside a push, a pop or a traversal eventually returns (unless
\* the process has crashed).
C2_Original ==
    \A t \in Threads :
        (DeinitCalled /\ BlockedInCall(t)) ~> (pc[t] = "idle" \/ fault # "none")

\* C2 amended: once q_deinit has set destroyed, every call in progress
\* eventually returns, and every pop that returns from then on returns NULL,
\* every push and traversal failure.
C2_DestroyedReleasesAll ==
    /\ [](destroyed => \A t \in Threads : FailingResult(t))
    /\ \A t \in Threads : (destroyed /\ pc[t] # "idle") ~> (pc[t] = "idle")

\* C2 witness: q_deinit has run while two pops were waiting; one is about to
\* return NULL, the other has been woken.
C2_Witness ==
    \E t, u \in Threads :
        /\ destroyed /\ t # u
        /\ pc[t] = "unlock" /\ op[t] \in PopOps /\ ret[t] = NULL
        /\ pc[u] = "lock" /\ op[u] \in PopOps

\* C3: on one thread the list read from head equals the reference deque
\* after every operation, and every pop on a live queue returns what the
\* reference deque returns: its first element for q_pop_front, its last for
\* q_pop_back.
C3_SeqPop ==
    \A t \in Threads :
        (WriterStep(t) /\ ~destroyed /\ op[t] \in PopOps) =>
            /\ deque # <<>>
            /\ ret'[t] = IF op[t] = "pop_front" THEN Head(deque) ELSE Last(deque)

LinearStep(t) ==
    WriterStep(t) =>
        CASE op[t] = "push_front" ->
                IF ret'[t] = EXIT_SUCCESS
                THEN Contents' = <<arg[t]>> \o Contents
                ELSE Contents' = Contents
          [] op[t] = "push_back" ->
                IF ret'[t] = EXIT_SUCCESS
                THEN Contents' = Append(Contents, arg[t])
                ELSE Contents' = Contents
          [] op[t] = "pop_front" ->
                IF destroyed
                THEN ret'[t] = NULL /\ Contents' = Contents
                ELSE /\ Contents # <<>>
                     /\ ret'[t] = Head(Contents)
                     /\ Contents' = Tail(Contents)
          [] op[t] = "pop_back" ->
                IF destroyed
                THEN ret'[t] = NULL /\ Contents' = Contents
                ELSE /\ Contents # <<>>
                     /\ ret'[t] = Last(Contents)
                     /\ Contents' = Front(Contents)
          [] OTHER -> Contents' = <<>>

\* At most one thread is between write_lock and write_unlock, and it is the
\* owner of the mutex.
WritersExclusive ==
    /\ \A t, u \in Threads : (pc[t] = "unlock" /\ pc[u] = "unlock") => t = u
    /\ \A t \in Threads : pc[t] = "unlock" <=> mutex = t

\* C4: pushes and pops of several threads are atomic: one writer at a time
\* holds the mutex, every writer step changes the list and returns as the
\* corresponding operation of a sequential deque does on the list it found,
\* and no other step changes the list.
C4_AtomicOps ==
    /\ [](WritersExclusive)
    /\ [][\A t \in Threads : LinearStep(t)]_vars
    /\ [][(\A t \in Threads : ~WriterStep(t)) => Contents' = Contents]_vars

\* C4 witness: a pop has taken an element while another pop waits for the
\* mutex and an element is left for it.
C4_Witness ==
    \E t, u \in Threads :
        /\ t # u /\ ~destroyed
        /\ pc[t] = "unlock" /\ op[t] \in PopOps /\ ret[t] # NULL
        /\ pc[u] = "lock" /\ op[u] \in PopOps
        /\ Contents # <<>>

\* The steps of a pop of thread t: with the queue empty and live it can only
\* park on write_cond; a parked pop can only go back to contend for the
\* mutex; and it gets to its return only from a queue that holds an element
\* or is destroyed, then returning the element if it is the only one.
PopStep(t) ==
    op[t] \in PopOps =>
        /\ (pc[t] = "lock" /\ pc'[t] # "lock" /\ head = NULL /\ ~destroyed)
              => pc'[t] = "wait_w"
        /\ (pc[t] = "wait_w" /\ pc'[t] # "wait_w") => pc'[t] = "lock"
        /\ (pc[t] # "unlock" /\ pc'[t] = "unlock")
              => /\ destroyed \/ head # NULL
                 /\ (~destroyed /\ Len(Contents) = 1) => ret'[t] = Contents[1]

\* A push that succeeds on the empty queue leaves exactly its payload.
PushOnEmpty(t) ==
    (WriterStep(t) /\ op[t] \in PushOps /\ head = NULL
        /\ ret'[t] = EXIT_SUCCESS /\ fault' = "none")
        => Contents' = <<arg[t]>>

\* C5: a pop on an empty, live queue does not return while the queue stays
\* empty and live (it parks, and re-checks when woken); it returns only from
\* a state in which a push has left an element or q_deinit has run; with one
\* producer and one consumer the element a push left on the empty queue is
\* the payload pushed, and it is what the pop returns.
C5_PopBlocksWhileEmpty ==
    /\ [][\A t \in Threads : PopStep(t) /\ PushOnEmpty(t)]_vars
    /\ [](fault # "pop_null_deref")

\* C5 witness: the consumer is parked, and the producer has just linked its
\* payload into the empty queue and is about to broadcast.
C5_Witness ==
    \E t, u \in Threads :
        /\ op[t] \in PopOps /\ pc[t] = "wait_w"
        /\ op[u] \in PushOps /\ pc[u] = "unlock" /\ ret[u] = EXIT_SUCCESS
        /\ Contents = <<arg[u]>>

\* C6: a pop returns NULL only if the queue is destroyed, so on a live queue
\* every pop that returns yields a payload; a push returns failure only if
\* the queue is destroyed, its object is NULL or malloc returned NULL.
C6_NullOnlyIfDestroyed ==
    \A t \in Threads :
        /\ (op[t] \in PopOps /\ pc[t] \in {"unlock", "ret"} /\ ret[t] = NULL)
              => destroyed
        /\ (op[t] \in PushOps /\ pc[t] = "unlock" /\ ret[t] # EXIT_SUCCESS)
              => destroyed \/ oom[t]
        /\ (op[t] \in PushOps /\ pc[t] = "ret" /\ ret[t] # EXIT_SUCCESS)
              => destroyed \/ arg[t] = NULL

\* C6 witness: a pop that was let in live finds the queue destroyed and is
\* about to return NULL, while a push of a payload has failed for the same
\* reason.
C6_Witness ==
    \E t, u \in Threads :
        /\ destroyed
        /\ op[t] \in PopOps /\ pc[t] = "unlock" /\ ret[t] = NULL
        /\ op[u] \in PushOps /\ pc[u] = "ret" /\ arg[u] # NULL

\* The bag of the elements of a sequence.
RECURSIVE BagOf(_)
BagOf(s) == IF s = <<>> THEN EmptyBag ELSE SetToBag({Head(s)}) (+) BagOf(Tail(s))

\* C7: after N successful pushes by several threads and no pop, the list
\* holds the N payloads pushed; a q_traverse that succeeds has called back
\* once for each element not yet popped; a pop blocks on the reader-free
\* queue only when N pops have returned a payload; the payloads popped and
\* still enqueued are, as bags, the payloads pushed.
C7_Conservation ==
    /\ [](BagOf(Contents) (+) popped = pushed)
    /\ [](\A t \in Threads :
            (pc[t] = "runlock" /\ ret[t] = EXIT_SUCCESS /\ phase = "drain")
                => /\ BagOf(visited[t]) (+) popped = pushed
                   /\ Len(visited[t]) + BagCardinality(popped)
                        = BagCardinality(pushed))
    /\ [][\A t \in Threads :
            (op[t] \in PopOps /\ pc[t] = "lock" /\ pc'[t] = "wait_w"
                /\ readers = 0)
                => BagCardinality(popped) = BagCardinality(pushed)]_vars

\* C7 witness: MaxNodes pushes were made by the pushing threads, none was
\* popped, and a traversal has called back MaxNodes times.
C7_Witness ==
    \E t \in Threads :
        /\ phase = "drain" /\ popped = EmptyBag
        /\ pc[t] = "runlock" /\ ret[t] = EXIT_SUCCESS
        /\ Len(visited[t]) = MaxNodes /\ BagCardinality(pushed) = MaxNodes

\* C8 as stated: when malloc returns NULL inside a push, the process does
\* not crash, the call returns failure and head, tail and every node are
\* unchanged, on the empty queue as on the non-empty one.
C8_AllocFailureReported ==
    [][/\ fault' # "malloc_null_deref"
       /\ \A t \in Threads :
            (oom'[t] /\ ~oom[t])
                => /\ ret'[t] = EXIT_FAILURE
                   /\ UNCHANGED <<head, tail, heap, allocated>>]_vars

\* C9 as stated: once destroyed is true it never becomes false again.
C9_Original == [][destroyed => destroyed']_vars

\* C9 amended: destroyed goes from true to false only in a step of q_init;
\* no push, pop, traversal or q_deinit clears it.
C9_OnlyInitClears ==
    [][(destroyed /\ ~destroyed') => \E t \in Threads : q_init(t)]_vars

\* C9 witness: the queue is destroyed and every thread has returned, the
\* state in which tests/test.c calls q_init again.
C9_Witness ==
    /\ destroyed
    /\ \A t \in Threads : pc[t] = "idle"
    /\ ENABLED (\E t \in Threads : q_init(t))

\* C10: on a destroyed queue head and tail are NULL and stay so, every push
\* that returns returns failure, every pop NULL, every traversal failure
\* with no callback made, and no call parks on a condition variable, also
\* the calls that passed their pre-check before q_deinit ran.
C10_DestroyedFailsFast ==
    /\ [](destroyed =>
            /\ head = NULL /\ tail = NULL
            /\ \A t \in Threads :
                /\ (op[t] \in PushOps \cup {"traverse"}
                        /\ pc[t] \in {"unlock", "runlock", "ret"})
                      => ret[t] = EXIT_FAILURE
                /\ (op[t] \in PopOps /\ pc[t] \in {"unlock", "ret"})
                      => ret[t] = NULL
                /\ visited[t] = <<>> /\ pc[t] # "walk")
    /\ []((destroyed /\ mutex = NoThread) => \A t \in Threads : ~Parked(t))
    /\ [][\A t \in Threads :
            (destroyed /\ ~Parked(t)) => ~Parked(t)']_vars

\* C10 witness: a push that passed its pre-check before q_deinit ran has
\* taken the lock on the destroyed queue and is about to return failure.
C10_Witness ==
    \E t \in Threads :
        /\ destroyed
        /\ op[t] \in PushOps /\ pc[t] = "unlock" /\ ret[t] = EXIT_FAILURE
        /\ mutex = t /\ head = NULL

\* A step of a q_deinit call of thread t: its entry, or a step inside it.
DeinitStep(t) ==
    \/ pc[t] = "idle" /\ op'[t] = "deinit"
    \/ op[t] = "deinit" /\ pc'[t] # pc[t]

\* C11: a q_deinit on a queue that is already destroyed changes nothing of
\* the queue (head, tail, readers and destroyed stay as the first call left
\* them), frees no node and never parks: called on the destroyed queue it
\* returns from its pre-check, and a call that passed the pre-check earlier
\* skips the body under the lock.
C11_DeinitIdempotent ==
    [][\A t \in Threads :
        (destroyed /\ DeinitStep(t)) =>
            /\ UNCHANGED <<head, tail, readers, destroyed, heap, allocated>>
            /\ head = NULL /\ tail = NULL
            /\ pc'[t] \notin {"wait_r", "wait_w"}
            /\ pc[t] = "idle" => pc'[t] = "ret"]_vars

\* C11 witness: the first q_deinit has returned (destroyed is set and the
\* mutex is free); one more q_deinit has returned from its pre-check and
\* another, which passed the pre-check earlier, is about to take the lock.
C11_Witness ==
    \E t, u \in Threads :
        /\ destroyed /\ mutex = NoThread
        /\ op[t] = "deinit" /\ pc[t] = "ret"
        /\ op[u] = "deinit" /\ pc[u] = "lock"

ReadLockStep(t) ==
    op[t] = "traverse" =>
        /\ (pc[t] = "lock" /\ pc'[t] # "lock" /\ head = NULL /\ ~destroyed)
              => pc'[t] = "wait_r"
        /\ (pc[t] = "wait_r" /\ pc'[t] # "wait_r") => pc'[t] = "lock"
        /\ (pc[t] # "reg" /\ pc'[t] = "reg") => (head # NULL \/ destroyed)

\* C13: a q_traverse on the empty live queue parks, and registers as a
\* reader only once a push has linked a node or q_deinit has run; a
\* registered traversal of a live queue finds head non-NULL, so a q_traverse
\* that returns success has called back at least once.
C13_TraverseBlocksWhileEmpty ==
    /\ [][\A t \in Threads : ReadLockStep(t)]_vars
    /\ [](\A t \in Threads :
            /\ (pc[t] \in {"reg", "walk"} /\ ~destroyed) => head # NULL
            /\ (pc[t] = "runlock" /\ ret[t] = EXIT_SUCCESS) => visited[t] # <<>>)

\* C13 witness: a traversal is parked on read_cond while a push has just
\* linked the first node and is about to broadcast.
C13_Witness ==
    \E t, u \in Threads :
        /\ op[t] = "traverse" /\ pc[t] = "wait_r"
        /\ op[u] \in PushOps /\ pc[u] = "unlock" /\ ret[u] = EXIT_SUCCESS
        /\ head # NULL /\ head = tail /\ ~destroyed

\* The payloads a traversal at node n still has to visit.
Remaining(n) == ListFrom(heap, n, MaxNodes + 1)

\* C14: while a thread is registered as a reader no step changes head, tail
\* or a node, whatever the other threads attempt; the callbacks made so far
\* followed by the payloads from current on are the list front to back, so
\* a q_traverse that returns success has called back exactly once for each
\* element, in the order of the list it registered on.
C14_TraverseInOrder ==
    /\ [](\A t \in Threads :
            /\ pc[t] = "walk" => visited[t] \o Remaining(cur[t]) = Contents
            /\ (pc[t] = "runlock" /\ ret[t] = EXIT_SUCCESS)
                  => visited[t] = Contents)
    /\ [][\A t \in Threads :
            (InTraverse(t) /\ InTraverse(t)') => UNCHANGED <<head, tail, heap>>]_vars

\* C14 witness: a traversal has called back with 1 then 2 on the list
\* <<1, 2>> and is about to unregister, while a push and a pop wait for it.
C14_Witness ==
    \E t, u, v \in Threads :
        /\ pc[t] = "runlock" /\ ret[t] = EXIT_SUCCESS /\ visited[t] = <<1, 2>>
        /\ pc[u] = "wait_w" /\ op[u] \in PushOps
        /\ pc[v] = "wait_w" /\ op[v] \in PopOps

\* The list is a proper doubly linked chain from head to tail.
WellFormed ==
    /\ head = NULL <=> tail = NULL
    /\ head # NULL =>
        /\ Len(Chain) <= MaxNodes
        /\ \A i \in 1..Len(Chain) : Chain[i] \in allocated
        /\ \A i, j \in 1..Len(Chain) : Chain[i] = Chain[j] => i = j
        /\ heap[head].prev = NULL
        /\ heap[tail].next = NULL
        /\ Last(Chain) = tail
        /\ \A i \in 1..Len(Chain) :
                heap[Chain[i]].next # NULL
                    => heap[heap[Chain[i]].next].prev = Chain[i]

\* C15: in every state in which no writer holds the mutex the list is well
\* formed: head is NULL iff tail is; on the non-empty list head.prev and
\* tail.next are NULL, next from head reaches tail, and n.next.prev = n for
\* every node n that has a successor.
C15_WellFormedList == mutex = NoThread => WellFormed

\* C15 witness: a list of MaxNodes nodes with no writer inside, while a
\* q_push_back and a q_pop_back are about to take the lock.
C15_Witness ==
    /\ mutex = NoThread
    /\ Len(Chain) = MaxNodes
    /\ heap[head].next # tail
    /\ \E t \in Threads : pc[t] = "lock" /\ op[t] = "pop_back"
    /\ \E t \in Threads : pc[t] = "lock" /\ op[t] = "push_back"

\* The threads that have completed read_lock and not yet read_unlock.
Registered == {t \in Threads : InTraverse(t)}

\* C16: readers is never negative and is the number of threads between
\* read_lock and read_unlock, hence 0 when no q_traverse is in progress; it
\* changes only by one, in the read_lock or read_unlock of a thread that
\* has the mutex (no other thread holds it).
C16_ReadersCount ==
    /\ [](readers >= 0 /\ readers = Cardinality(Registered))
    /\ []((\A t \in Threads : op[t] # "traverse") => readers = 0)
    /\ [][readers' # readers =>
            /\ mutex = NoThread /\ mutex' = NoThread
            /\ \E t \in Threads :
                \/ pc[t] = "lock" /\ pc'[t] = "reg" /\ readers' = readers + 1
                \/ pc[t] = "runlock" /\ pc'[t] = "idle"
                     /\ readers' = readers - 1]_vars

\* C16 witness: two threads are registered, one walking and one about to
\* unregister, and a third is about to register.
C16_Witness ==
    \E t, u, v \in Threads :
        /\ t # u /\ readers = 2
        /\ pc[t] = "walk" /\ pc[u] = "runlock"
        /\ pc[v] = "lock" /\ op[v] = "traverse"

\* The steps of thread t at the lock: a traversal of a non-empty queue
\* registers whatever the number of readers, and a push on a reader-free
\* queue goes on to write_unlock, empty or not.
NoNeedlessWait(t) ==
    /\ (op[t] = "traverse" /\ pc[t] = "lock" /\ pc'[t] # "lock" /\ head # NULL)
          => (pc'[t] = "reg" /\ readers' = readers + 1)
    /\ (op[t] \in PushOps /\ pc[t] = "lock" /\ pc'[t] # "lock" /\ readers = 0)
          => pc'[t] = "unlock"

\* C17: readers do not block each other and writers are exclusive: a
\* q_traverse that takes the lock on a non-empty queue registers at once,
\* however many readers are registered; a push that takes the lock on a
\* reader-free queue never waits, empty or not; at most one thread is in a
\* push, pop or q_deinit section, and on a live queue none while a reader
\* is registered.
C17_SharedReadExclusiveWrite ==
    /\ [][\A t \in Threads : NoNeedlessWait(t)]_vars
    /\ [](Cardinality({t \in Threads : pc[t] = "unlock"}) <= 1)
    /\ []((\E t \in Threads : pc[t] = "unlock" /\ ~destroyed) => readers = 0)

\* C17 witness: two threads walk the list at the same time and a third is
\* about to join them.
C17_Witness ==
    \E t, u, v \in Threads :
        /\ t # u /\ readers >= 2 /\ ~destroyed
        /\ pc[t] = "walk" /\ cur[t] # NULL
        /\ pc[u] = "walk" /\ cur[u] # NULL
        /\ pc[v] = "lock" /\ op[v] = "traverse"

\* The condition thread t, parked on a condition variable, is waiting for.
WaitIsOver(t) ==
    IF op[t] = "traverse" THEN ~ReadMustWait
    ELSE IF op[t] \in PopOps THEN ~PopMustWait
    ELSE ~PushMustWait

\* C18: no wake-up is lost: whenever the mutex is free, no thread is parked
\* on read_cond or write_cond with the condition it waits for already true
\* (traversal: head != NULL or destroyed; push and q_deinit: readers == 0 or
\* destroyed; pop: head != NULL and readers == 0, or destroyed).
C18_NoLostWakeup ==
    mutex = NoThread => \A t \in Threads : Parked(t) => ~WaitIsOver(t)

\* C18 witness: a push and a pop are parked on write_cond, and the only
\* reader is about to unregister, with the broadcast of read_unlock to come.
C18_Witness ==
    \E t, u, v \in Threads :
        /\ pc[t] = "wait_w" /\ op[t] \in PushOps
        /\ pc[u] = "wait_w" /\ op[u] \in PopOps
        /\ pc[v] = "runlock" /\ readers = 1 /\ mutex = NoThread

\* C19: no node is freed twice or used after it was freed; the allocated
\* nodes are exactly the nodes of the list, so each one stays allocated until
\* the pop that detaches it or q_deinit frees it; nodes are freed only by
\* such a step, a pop freeing the one node it detaches and q_deinit all; on
\* a destroyed queue nothing is allocated and head and tail are NULL.
C19_NodesFreedOnce ==
    /\ [](fault # "use_after_free")
    /\ [](allocated = {Chain[i] : i \in 1..Len(Chain)})
    /\ [](destroyed => (allocated = {} /\ head = NULL /\ tail = NULL))
    /\ [][\A n \in allocated \ allocated' :
            \E t \in Threads :
                /\ WriterStep(t) /\ ~destroyed
                /\ \/ op[t] = "pop_front" /\ n = head /\ allocated' = allocated \ {n}
                   \/ op[t] = "pop_back" /\ n = tail /\ allocated' = allocated \ {n}
                   \/ op[t] = "deinit" /\ allocated' = {}]_vars

\* C19 witness: q_deinit has run and is about to unlock, a second q_deinit
\* is on its way to the lock, and a pop that was waiting has been woken or
\* is still parked.
C19_Witness ==
    \E t, u, v \in Threads :
        /\ destroyed /\ allocated = {}
        /\ op[t] = "deinit" /\ pc[t] = "unlock"
        /\ op[u] = "deinit" /\ pc[u] = "lock"
        /\ op[v] \in PopOps /\ pc[v] \in {"wait_w", "lock"}

\* Thread t is parked in write_lock_push of a push or of q_deinit.
WaitingWriter(t) == op[t] \in PushOps \cup {"deinit"} /\ pc[t] = "wait_w"

\* C20 as stated: under fair scheduling a thread waiting in q_deinit or in
\* a push for the readers to drain eventually gets the write lock, also
\* when other threads keep calling q_traverse (unless the process crashed).
C20_Original ==
    \A t \in Threads :
        WaitingWriter(t) ~> (pc[t] = "unlock" \/ fault # "none")

\* C20 amended: under fair scheduling a thread waiting in q_deinit or in a
\* push for the readers to drain eventually gets the write lock, unless
\* traversals are registered again and again for ever.
C20_WriterAcquiresOnceReadersStop ==
    \A t \in Threads :
        \/ []<>(readers # 0)
        \/ WaitingWriter(t) ~> (pc[t] = "unlock" \/ fault # "none")

\* C20 witness: q_deinit is parked in write_lock_push on the live non-empty
\* queue while a traversal walks the list.
C20_Witness ==
    \E t, u \in Threads :
        /\ WaitingWriter(t) /\ op[t] = "deinit"
        /\ pc[u] = "walk" /\ readers = 1 /\ ~destroyed /\ head # NULL

TypeOK ==
    /\ head \in Nodes \cup {NULL}
    /\ tail \in Nodes \cup {NULL}
    /\ allocated \subseteq Nodes
    /\ readers \in 0..NumThreads
    /\ destroyed \in BOOLEAN
    /\ mutex \in Threads \cup {NoThread}
    /\ fault \in {"none", "malloc_null_deref", "pop_null_deref", "use_after_free"}
    /\ phase \in {"any", "fill", "drain", "trip"}

====
